---- MODULE Spec2Model ----
(***************************************************************************)
(* HarmonyArch: the topological registries (domain/primitives) and the     *)
(* iterative constraint solver (domain/constraints).                        *)
(*                                                                         *)
(* Identifiers (Uuid) are modelled as the integers 1..MaxId, ordered as    *)
(* Uuid's Ord orders them.  f32 coordinates are modelled as signed fixed   *)
(* point numbers with 24 fractional bits (One == 2^24); every product,     *)
(* quotient and square root is rounded towards zero to that grid.          *)
(***************************************************************************)
EXTENDS Integers, Sequences, FiniteSets, TLC

VARIABLES
    vertices,     \* VertexRegistry.vertices : id -> position
    segments,     \* SegmentRegistry.segments : id -> <<id, id>>
    polygons,     \* PolygonRegistry.polygons : id -> sequence of segment ids
    solids,       \* SolidRegistry.solids : id -> sequence of polygon ids
    issued,       \* the values Uuid::new_v4() has produced so far
    returned,     \* history: ids returned by successful create_and_store calls
    last,         \* the last registry call: its name, arguments and result
    points,       \* ConstraintSolver.geometry.points
    constraints,  \* ConstraintSolver.constraints
    config,       \* ConstraintSolver.config
    pc,           \* where the solver is: idle, check, relax or done
    iteration,    \* the loop variable of solve_iterative
    result,       \* what solve() returned (or that it panicked)
    checks,       \* history: convergence checks carried out by solve()
    passes,       \* history: relax_constraints calls carried out by solve()
    relaxLog      \* history: the relax_distance_constraint calls of the last pass

regVars == <<vertices, segments, polygons, solids, issued, returned, last>>

solverVars == <<points, constraints, config, pc, iteration, result, checks, passes, relaxLog>>

vars == <<regVars, solverVars>>

----------------------------------------------------------------------------
(* Bounds *)

MaxId == 3
MaxIssued == 2
MaxListLen == 2

Ids == 1..MaxId
NoId == 0

One == 16777216

PointChoices == { <<0, 0, 0>>, <<One, 0, 0>> }

RECURSIVE SeqsUpTo(_, _)
SeqsUpTo(S, n) ==
    IF n = 0 THEN { <<>> }
    ELSE LET shorter == SeqsUpTo(S, n - 1)
         IN  shorter \cup { Append(s, e) : s \in { t \in shorter : Len(t) = n - 1 }, e \in S }

IdLists == SeqsUpTo(Ids, MaxListLen)

----------------------------------------------------------------------------
(* HashMap<Uuid, T> *)

EmptyMap == [k \in {} |-> 0]

InsertClobber(map, id, value) == [k \in {id} |-> value]

Insert(map, id, value) ==
    [k \in (DOMAIN map) \cup {id} |-> IF k = id THEN value ELSE map[k]]

RemoveOrClear(map, id) ==
    IF id \in DOMAIN map THEN [k \in (DOMAIN map) \ {id} |-> map[k]] ELSE EmptyMap

Remove(map, id) == [k \in (DOMAIN map) \ {id} |-> map[k]]

Get(map, id) == IF id \in DOMAIN map THEN <<map[id]>> ELSE <<>>

(* Uuid::new_v4(): 122 random bits; modelled as any value not produced     *)
(* before.                                                                 *)
NewV4Reuse ==
    IF Cardinality(issued) < MaxIssued
    THEN Ids \ ((DOMAIN vertices) \cup (DOMAIN segments) \cup (DOMAIN polygons) \cup (DOMAIN solids))
    ELSE {}

NewV4 == IF Cardinality(issued) < MaxIssued THEN Ids \ issued ELSE {}

----------------------------------------------------------------------------
(* domain/validations/distinct.rs *)

RECURSIVE DistinctScan(_, _, _)
DistinctScan(items, i, distinct_ids) ==
    IF i > Len(items) THEN TRUE
    ELSE IF items[i] \in distinct_ids THEN FALSE
    ELSE DistinctScan(items, i + 1, distinct_ids \cup {items[i]})

validate_distinct_ids_adjacent(items) ==
    \A i \in 1..(Len(items) - 1) : items[i] # items[i + 1]

validate_distinct_ids(items) == DistinctScan(items, 1, {})

----------------------------------------------------------------------------
(* domain/primitives: constructors *)

new_vertex(position) == position

new_segment_unordered(vertex1, vertex2) == <<vertex1, vertex2>>

new_segment(vertex1, vertex2) ==
    IF vertex1 < vertex2 THEN <<vertex1, vertex2>> ELSE <<vertex2, vertex1>>

new_polygon_unchecked(segment_ids) == [ok |-> TRUE, segments |-> segment_ids]

new_polygon(segment_ids) ==
    IF ~validate_distinct_ids(segment_ids)
    THEN [ok |-> FALSE, segments |-> <<>>]
    ELSE [ok |-> TRUE, segments |-> segment_ids]

new_solid(polygon_ids) == polygon_ids

----------------------------------------------------------------------------
(* domain/primitives: registries *)

Called(op, args, ret) == last' = [op |-> op, args |-> args, ret |-> ret]

VertexCreateAndStore ==
    \E position \in PointChoices, id \in NewV4 :
        /\ vertices' = Insert(vertices, id, new_vertex(position))
        /\ issued' = issued \cup {id}
        /\ returned' = returned \cup {id}
        /\ Called("vertex_create_and_store", position, id)
        /\ UNCHANGED <<segments, polygons, solids, solverVars>>

VertexRemoveCascade ==
    \E id \in Ids :
        /\ vertices' = Remove(vertices, id)
        /\ segments' = [s \in { t \in DOMAIN segments : id \notin { segments[t][1], segments[t][2] } }
                            |-> segments[s]]
        /\ Called("vertex_remove", <<id>>, NoId)
        /\ UNCHANGED <<polygons, solids, issued, returned, solverVars>>

VertexRemove ==
    \E id \in Ids :
        /\ vertices' = Remove(vertices, id)
        /\ Called("vertex_remove", <<id>>, NoId)
        /\ UNCHANGED <<segments, polygons, solids, issued, returned, solverVars>>

SegmentCreateAndStore ==
    \E start_vertex \in Ids, end_vertex \in Ids, id \in NewV4 :
        /\ segments' = Insert(segments, id, new_segment(start_vertex, end_vertex))
        /\ issued' = issued \cup {id}
        /\ returned' = returned \cup {id}
        /\ Called("segment_create_and_store", <<start_vertex, end_vertex>>, id)
        /\ UNCHANGED <<vertices, polygons, solids, solverVars>>

SegmentRemove ==
    \E id \in Ids :
        /\ segments' = Remove(segments, id)
        /\ Called("segment_remove", <<id>>, NoId)
        /\ UNCHANGED <<vertices, polygons, solids, issued, returned, solverVars>>

PolygonCreateAndStore ==
    \E segment_ids \in IdLists :
        LET polygon == new_polygon(segment_ids)
        IN  /\ polygon.ok
            /\ \E id \in NewV4 :
                /\ polygons' = Insert(polygons, id, polygon.segments)
                /\ issued' = issued \cup {id}
                /\ returned' = returned \cup {id}
                /\ Called("polygon_create_and_store", segment_ids, id)
            /\ UNCHANGED <<vertices, segments, solids, solverVars>>

PolygonCreateRejected ==
    \E segment_ids \in IdLists :
        LET polygon == new_polygon(segment_ids)
        IN  /\ ~polygon.ok
            /\ Called("polygon_create_and_store", segment_ids, NoId)
            /\ UNCHANGED <<vertices, segments, polygons, solids, issued, returned, solverVars>>

PolygonRemove ==
    \E id \in Ids :
        /\ polygons' = Remove(polygons, id)
        /\ Called("polygon_remove", <<id>>, NoId)
        /\ UNCHANGED <<vertices, segments, solids, issued, returned, solverVars>>

SolidCreateAndStore ==
    \E polygon_ids \in IdLists, id \in NewV4 :
        /\ solids' = Insert(solids, id, new_solid(polygon_ids))
        /\ issued' = issued \cup {id}
        /\ returned' = returned \cup {id}
        /\ Called("solid_create_and_store", polygon_ids, id)
        /\ UNCHANGED <<vertices, segments, polygons, solverVars>>

SolidRemove ==
    \E id \in Ids :
        /\ solids' = Remove(solids, id)
        /\ Called("solid_remove", <<id>>, NoId)
        /\ UNCHANGED <<vertices, segments, polygons, issued, returned, solverVars>>

RegInit ==
    /\ vertices = EmptyMap
    /\ segments = EmptyMap
    /\ polygons = EmptyMap
    /\ solids = EmptyMap
    /\ issued = {}
    /\ returned = {}
    /\ last = [op |-> "none", args |-> <<>>, ret |-> NoId]

RegNext ==
    \/ VertexCreateAndStore
    \/ VertexRemove
    \/ SegmentCreateAndStore
    \/ SegmentRemove
    \/ PolygonCreateAndStore
    \/ PolygonCreateRejected
    \/ PolygonRemove
    \/ SolidCreateAndStore
    \/ SolidRemove

----------------------------------------------------------------------------
(* f32 arithmetic on the fixed-point grid: a value v stands for v / One.   *)

Radix == 4096

Abs(x) == IF x < 0 THEN -x ELSE x

Sign(x) == IF x < 0 THEN -1 ELSE 1

(* floor(a * b / One) for a, b >= 0, without leaving 32 bits *)
MulU(a, b) ==
    LET a1 == a \div Radix
        a0 == a % Radix
        b1 == b \div Radix
        b0 == b % Radix
    IN  a1 * b1 + ((a1 * b0 + a0 * b1 + ((a0 * b0) \div Radix)) \div Radix)

FMul(a, b) == Sign(a) * Sign(b) * MulU(Abs(a), Abs(b))

RECURSIVE DivDigits(_, _, _, _)
DivDigits(q, r, b, n) ==
    IF n = 0 THEN q
    ELSE DivDigits(q * 16 + ((r * 16) \div b), (r * 16) % b, b, n - 1)

(* floor(a * One / b) for b # 0 *)
FDiv(a, b) ==
    Sign(a) * Sign(b) * DivDigits(Abs(a) \div Abs(b), Abs(a) % Abs(b), Abs(b), 6)

FHalf(a) == Sign(a) * (Abs(a) \div 2)

RECURSIVE ISqrtBits(_, _, _)
ISqrtBits(v, r, bit) ==
    IF bit = 0 THEN r
    ELSE IF (r + bit) <= v \div (r + bit)
         THEN ISqrtBits(v, r + bit, bit \div 2)
         ELSE ISqrtBits(v, r, bit \div 2)

RECURSIVE SqrtDigits(_, _, _)
SqrtDigits(r, rem, n) ==
    IF n = 0 THEN r
    ELSE IF 4 * rem >= 4 * r + 1
         THEN SqrtDigits(2 * r + 1, 4 * rem - (4 * r + 1), n - 1)
         ELSE SqrtDigits(2 * r, 4 * rem, n - 1)

(* floor(sqrt(v * One)) for v >= 0 *)
FSqrt(v) ==
    LET r == ISqrtBits(v, 0, 32768)
    IN  SqrtDigits(r, v - r * r, 12)

----------------------------------------------------------------------------
(* domain/primitives/vector.rs, domain/constraints *)

measure_vector(start_point, end_point) ==
    << end_point[1] - start_point[1],
       end_point[2] - start_point[2],
       end_point[3] - start_point[3] >>

Norm(vector) ==
    FSqrt(FMul(vector[1], vector[1]) + FMul(vector[2], vector[2]) + FMul(vector[3], vector[3]))

(* GeometryState::get_point: indices count from 0 *)
HasPoint(geometry, idx) == idx + 1 \in DOMAIN geometry

get_point(geometry, idx) == geometry[idx + 1]

(* the point indices a constraint unwraps when its residual is computed *)
PointIdxs(c) == IF c.kind = "Height" THEN {c.a} ELSE {c.a, c.b}

DistanceResidual(c, geometry) ==
    Abs(Norm(measure_vector(get_point(geometry, c.a), get_point(geometry, c.b))) - c.required)

HorizontalResidual(c, geometry) ==
    Abs(get_point(geometry, c.b)[3] - get_point(geometry, c.a)[3])

HeightResidualSigned(c, geometry) ==
    get_point(geometry, c.a)[3] - c.required

HeightResidual(c, geometry) ==
    Abs(get_point(geometry, c.a)[3] - c.required)

VerticalResidual(c, geometry) ==
    LET dx == get_point(geometry, c.b)[1] - get_point(geometry, c.a)[1]
        dy == get_point(geometry, c.b)[2] - get_point(geometry, c.a)[2]
    IN  FSqrt(FMul(dx, dx) + FMul(dy, dy))

residual(c, geometry) ==
    CASE c.kind = "Distance" -> DistanceResidual(c, geometry)
      [] c.kind = "Horizontal" -> HorizontalResidual(c, geometry)
      [] c.kind = "Height" -> HeightResidual(c, geometry)
      [] c.kind = "Vertical" -> VerticalResidual(c, geometry)
      [] c.kind = "VerticalAlignment" -> VerticalResidual(c, geometry)

Max(a, b) == IF a >= b THEN a ELSE b

RECURSIVE MaxResidualFrom(_, _, _, _)
MaxResidualFrom(cs, geometry, i, max_residual) ==
    IF i > Len(cs) THEN max_residual
    ELSE MaxResidualFrom(cs, geometry, i + 1, Max(max_residual, residual(cs[i], geometry)))

(* only the residual of the last constraint kept *)
LastResidual(cs, geometry) == residual(cs[Len(cs)], geometry)

MaxResidual(cs, geometry) == MaxResidualFrom(cs, geometry, 1, 0)

(* a residual() call of the check unwraps a missing point *)
ResidualPanics(cs, geometry) ==
    \E i \in 1..Len(cs) : \E idx \in PointIdxs(cs[i]) : ~HasPoint(geometry, idx)

(* sort_by_key(|c| c.priority()): a stable sort *)
RECURSIVE InsertByKeyBefore(_, _)
InsertByKeyBefore(sorted, c) ==
    IF sorted = <<>> THEN <<c>>
    ELSE IF Head(sorted).priority < c.priority
         THEN <<Head(sorted)>> \o InsertByKeyBefore(Tail(sorted), c)
         ELSE <<c>> \o sorted

RECURSIVE InsertByKey(_, _)
InsertByKey(sorted, c) ==
    IF sorted = <<>> THEN <<c>>
    ELSE IF Head(sorted).priority <= c.priority
         THEN <<Head(sorted)>> \o InsertByKey(Tail(sorted), c)
         ELSE <<c>> \o sorted

RECURSIVE SortFromUnstable(_, _, _)
SortFromUnstable(cs, i, sorted) ==
    IF i > Len(cs) THEN sorted
    ELSE SortFromUnstable(cs, i + 1, InsertByKeyBefore(sorted, cs[i]))

RECURSIVE SortFrom(_, _, _)
SortFrom(cs, i, sorted) ==
    IF i > Len(cs) THEN sorted
    ELSE SortFrom(cs, i + 1, InsertByKey(sorted, cs[i]))

SortByKeyUnstable(cs) == SortFromUnstable(cs, 1, <<>>)

SortByKey(cs) == SortFrom(cs, 1, <<>>)

Nudge == 1677721

SetPoint(geometry, idx, p) == [geometry EXCEPT ![idx + 1] = p]

(* the two points each moved by the whole adjustment instead of half of it *)
relax_distance_constraint_full_step(geometry, c, damping) ==
    LET point_a == get_point(geometry, c.a)
        point_b == get_point(geometry, c.b)
        vector == measure_vector(point_a, point_b)
        current_distance == Norm(vector)
    IN  IF current_distance = 0
        THEN SetPoint(geometry, c.b, <<point_b[1] + Nudge, point_b[2], point_b[3]>>)
        ELSE LET scale_factor == FDiv(c.required, current_distance)
                 adjustment_x == FMul(FMul(vector[1], scale_factor - One), damping)
                 adjustment_y == FMul(FMul(vector[2], scale_factor - One), damping)
                 adjustment_z == FMul(FMul(vector[3], scale_factor - One), damping)
                 moved_a == << point_a[1] - adjustment_x,
                               point_a[2] - adjustment_y,
                               point_a[3] - adjustment_z >>
                 after_a == SetPoint(geometry, c.a, moved_a)
                 b_now == get_point(after_a, c.b)
                 moved_b == << b_now[1] + adjustment_x,
                               b_now[2] + adjustment_y,
                               b_now[3] + adjustment_z >>
             IN  SetPoint(after_a, c.b, moved_b)

(* only the second point moved, by the whole adjustment *)
relax_distance_constraint_one_sided(geometry, c, damping) ==
    LET point_a == get_point(geometry, c.a)
        point_b == get_point(geometry, c.b)
        vector == measure_vector(point_a, point_b)
        current_distance == Norm(vector)
    IN  IF current_distance = 0
        THEN SetPoint(geometry, c.b, <<point_b[1] + Nudge, point_b[2], point_b[3]>>)
        ELSE LET scale_factor == FDiv(c.required, current_distance)
                 adjustment_x == FMul(FMul(vector[1], scale_factor - One), damping)
                 adjustment_y == FMul(FMul(vector[2], scale_factor - One), damping)
                 adjustment_z == FMul(FMul(vector[3], scale_factor - One), damping)
             IN  SetPoint(geometry, c.b, << point_b[1] + adjustment_x,
                                            point_b[2] + adjustment_y,
                                            point_b[3] + adjustment_z >>)

(* the offset of coincident points scaled by the damping *)
relax_distance_constraint_damped_nudge(geometry, c, damping) ==
    LET point_a == get_point(geometry, c.a)
        point_b == get_point(geometry, c.b)
        vector == measure_vector(point_a, point_b)
        current_distance == Norm(vector)
    IN  IF current_distance = 0
        THEN SetPoint(geometry, c.b,
                      <<point_b[1] + FMul(Nudge, damping), point_b[2], point_b[3]>>)
        ELSE LET scale_factor == FDiv(c.required, current_distance)
                 adjustment_x == FMul(FMul(vector[1], scale_factor - One), damping)
                 adjustment_y == FMul(FMul(vector[2], scale_factor - One), damping)
                 adjustment_z == FMul(FMul(vector[3], scale_factor - One), damping)
                 moved_a == << point_a[1] - FHalf(adjustment_x),
                               point_a[2] - FHalf(adjustment_y),
                               point_a[3] - FHalf(adjustment_z) >>
                 after_a == SetPoint(geometry, c.a, moved_a)
                 b_now == get_point(after_a, c.b)
                 moved_b == << b_now[1] + FHalf(adjustment_x),
                               b_now[2] + FHalf(adjustment_y),
                               b_now[3] + FHalf(adjustment_z) >>
             IN  SetPoint(after_a, c.b, moved_b)

relax_distance_constraint(geometry, c, damping) ==
    LET point_a == get_point(geometry, c.a)
        point_b == get_point(geometry, c.b)
        vector == measure_vector(point_a, point_b)
        current_distance == Norm(vector)
    IN  IF current_distance = 0
        THEN SetPoint(geometry, c.b, <<point_b[1] + Nudge, point_b[2], point_b[3]>>)
        ELSE LET scale_factor == FDiv(c.required, current_distance)
                 adjustment_x == FMul(FMul(vector[1], scale_factor - One), damping)
                 adjustment_y == FMul(FMul(vector[2], scale_factor - One), damping)
                 adjustment_z == FMul(FMul(vector[3], scale_factor - One), damping)
                 moved_a == << point_a[1] - FHalf(adjustment_x),
                               point_a[2] - FHalf(adjustment_y),
                               point_a[3] - FHalf(adjustment_z) >>
                 after_a == SetPoint(geometry, c.a, moved_a)
                 b_now == get_point(after_a, c.b)
                 moved_b == << b_now[1] + FHalf(adjustment_x),
                               b_now[2] + FHalf(adjustment_y),
                               b_now[3] + FHalf(adjustment_z) >>
             IN  SetPoint(after_a, c.b, moved_b)

(* every constraint taken for a distance constraint *)
IsAnyConstraint(c) == TRUE

IsDistance(c) == c.kind = "Distance"

(* relax_constraints: the distance constraints, in the order of            *)
(* self.constraints, each applied to the geometry the previous one left.   *)
RECURSIVE RelaxFrom(_, _, _, _, _)
RelaxFrom(distance_constraints, i, geometry, damping, log) ==
    IF i > Len(distance_constraints) THEN [points |-> geometry, log |-> log]
    ELSE LET c == distance_constraints[i]
             wrote == relax_distance_constraint(geometry, c, damping)
         IN  RelaxFrom(distance_constraints, i + 1, wrote, damping,
                       Append(log, [decl |-> c.decl, read |-> geometry, wrote |-> wrote]))

relax_constraints(cs, geometry, damping) ==
    RelaxFrom(SelectSeq(cs, IsDistance), 1, geometry, damping, <<>>)

RelaxPanics(cs, geometry) ==
    \E i \in 1..Len(cs) : IsDistance(cs[i]) /\ \E idx \in {cs[i].a, cs[i].b} : ~HasPoint(geometry, idx)

----------------------------------------------------------------------------
(* domain/constraints/mod.rs: ConstraintSolver *)

MaxPoints == 2
MaxConstraints == 2
MaxIterations == 2
DampingSteps == 16

DefaultMaxIterations == 100
DefaultTolerance == 17
DefaultDamping == One \div 2

DefaultConfig ==
    [max_iterations |-> DefaultMaxIterations, tolerance |-> DefaultTolerance, damping |-> DefaultDamping]

SolverPointChoices == { <<0, 0, 0>>, <<One, 0, 0>>, <<0, One, One>> }

MissingIdx == MaxPoints

ConstraintChoices ==
    { [kind |-> "Distance", a |-> 0, b |-> b, required |-> r, priority |-> p] :
        b \in {1, MissingIdx}, r \in {One, 2 * One}, p \in {1, 2} }
    \cup
    { [kind |-> k, a |-> 0, b |-> 1, required |-> 0, priority |-> 1] :
        k \in {"Horizontal", "Vertical", "VerticalAlignment"} }
    \cup
    { [kind |-> "Height", a |-> 1, b |-> 1, required |-> One, priority |-> 1] }

ConfigChoices ==
    [max_iterations : 0..MaxIterations,
     tolerance : {DefaultTolerance, One \div 2},
     damping : {0, One \div 2, One}]

DampingChoices == { (k * One) \div DampingSteps : k \in 1..DampingSteps }

NoResult == [tag |-> "None", n |-> 0]

Converged(n) == [tag |-> "Converged", n |-> n]

MaxIterationsReached == [tag |-> "MaxIterationsReached", n |-> 0]

Panicked == [tag |-> "Panicked", n |-> 0]

WithDecl(c, decl) ==
    [kind |-> c.kind, a |-> c.a, b |-> c.b, required |-> c.required,
     priority |-> c.priority, decl |-> decl]

(* ConstraintSolver::new().with_config(cfg) *)
SolverNew(cfg) ==
    /\ points = <<>>
    /\ constraints = <<>>
    /\ config = cfg
    /\ pc = "idle"
    /\ iteration = 0
    /\ result = NoResult
    /\ checks = 0
    /\ passes = 0
    /\ relaxLog = <<>>

AddPoint ==
    /\ pc = "idle"
    /\ Len(points) < MaxPoints
    /\ \E point \in SolverPointChoices : points' = Append(points, point)
    /\ UNCHANGED <<constraints, config, pc, iteration, result, checks, passes, relaxLog, regVars>>

AddConstraint ==
    /\ pc = "idle"
    /\ Len(constraints) < MaxConstraints
    /\ \E c \in ConstraintChoices :
            constraints' = Append(constraints, WithDecl(c, Len(constraints) + 1))
    /\ UNCHANGED <<points, config, pc, iteration, result, checks, passes, relaxLog, regVars>>

(* solve() without the early return for an empty constraint list *)
SolveEmptyFallsThrough ==
    /\ pc = "idle"
    /\ constraints = <<>>
    /\ pc' = "check"
    /\ iteration' = 0
    /\ UNCHANGED <<points, constraints, config, result, checks, passes, relaxLog, regVars>>

(* solve(): no constraints *)
SolveEmpty ==
    /\ pc = "idle"
    /\ constraints = <<>>
    /\ result' = Converged(0)
    /\ pc' = "done"
    /\ UNCHANGED <<points, constraints, config, iteration, checks, passes, relaxLog, regVars>>

(* solve(): sort, then enter solve_iterative *)
SolveBegin ==
    /\ pc = "idle"
    /\ constraints # <<>>
    /\ constraints' = SortByKey(constraints)
    /\ iteration' = 0
    /\ pc' = "check"
    /\ UNCHANGED <<points, config, result, checks, passes, relaxLog, regVars>>

(* solve_iterative: the range 0..max_iterations is exhausted *)
LoopExit ==
    /\ pc = "check"
    /\ iteration >= config.max_iterations
    /\ result' = MaxIterationsReached
    /\ pc' = "done"
    /\ UNCHANGED <<points, constraints, config, iteration, checks, passes, relaxLog, regVars>>

(* solve_iterative: a residual() call unwraps a missing point *)
CheckPanic ==
    /\ pc = "check"
    /\ iteration < config.max_iterations
    /\ ResidualPanics(constraints, points)
    /\ result' = Panicked
    /\ pc' = "done"
    /\ UNCHANGED <<points, constraints, config, iteration, checks, passes, relaxLog, regVars>>

(* solve_iterative: the successful check, reporting the loop variable *)
CheckConvergedOffByOne ==
    /\ pc = "check"
    /\ iteration < config.max_iterations
    /\ ~ResidualPanics(constraints, points)
    /\ MaxResidual(constraints, points) < config.tolerance
    /\ result' = Converged(iteration)
    /\ checks' = checks + 1
    /\ pc' = "done"
    /\ UNCHANGED <<points, constraints, config, iteration, passes, relaxLog, regVars>>

(* solve_iterative: max_residual < tolerance *)
CheckConverged ==
    /\ pc = "check"
    /\ iteration < config.max_iterations
    /\ ~ResidualPanics(constraints, points)
    /\ MaxResidual(constraints, points) < config.tolerance
    /\ result' = Converged(iteration + 1)
    /\ checks' = checks + 1
    /\ pc' = "done"
    /\ UNCHANGED <<points, constraints, config, iteration, passes, relaxLog, regVars>>

CheckContinue ==
    /\ pc = "check"
    /\ iteration < config.max_iterations
    /\ ~ResidualPanics(constraints, points)
    /\ ~(MaxResidual(constraints, points) < config.tolerance)
    /\ checks' = checks + 1
    /\ pc' = "relax"
    /\ UNCHANGED <<points, constraints, config, iteration, result, passes, relaxLog, regVars>>

(* solve_iterative: relax_constraints(), then the next iteration *)
Relax ==
    /\ pc = "relax"
    /\ IF RelaxPanics(constraints, points)
       THEN /\ result' = Panicked
            /\ pc' = "done"
            /\ UNCHANGED <<points, iteration, passes, relaxLog>>
       ELSE LET relaxed == relax_constraints(constraints, points, config.damping)
            IN  /\ points' = relaxed.points
                /\ relaxLog' = relaxed.log
                /\ passes' = passes + 1
                /\ iteration' = iteration + 1
                /\ pc' = "check"
                /\ UNCHANGED result
    /\ UNCHANGED <<constraints, config, checks, regVars>>

SolverInit ==
    /\ RegInit
    /\ \E cfg \in ConfigChoices : SolverNew(cfg)

SolverNext ==
    \/ AddPoint
    \/ AddConstraint
    \/ SolveEmpty
    \/ SolveBegin
    \/ LoopExit
    \/ CheckPanic
    \/ CheckConverged
    \/ CheckContinue
    \/ Relax

SolverSpec == SolverInit /\ [][SolverNext]_vars

(* test_constraint_solver_basic, at its call of solve(), for each damping *)
BasicTestInit ==
    /\ RegInit
    /\ points = << <<0, 0, 0>>, <<One, 0, 0>> >>
    /\ constraints = << [kind |-> "Distance", a |-> 0, b |-> 1, required |-> 2 * One,
                         priority |-> 1, decl |-> 1] >>
    /\ \E d \in DampingChoices :
            config = [max_iterations |-> DefaultMaxIterations,
                      tolerance |-> DefaultTolerance, damping |-> d]
    /\ pc = "idle"
    /\ iteration = 0
    /\ result = NoResult
    /\ checks = 0
    /\ passes = 0
    /\ relaxLog = <<>>

BasicTestNext ==
    \/ SolveBegin
    \/ LoopExit
    \/ CheckConverged
    \/ CheckContinue
    \/ Relax

BasicTestSpec == BasicTestInit /\ [][BasicTestNext]_vars

Init == RegInit /\ SolverNew(DefaultConfig)


Next == RegNext

Spec == Init /\ [][Next]_vars

----------------------------------------------------------------------------
(* domain/solver: the tiered solver (boundary, apply_solve, delta, types)  *)

MaxExplicit == 2
MaxDeltas == 2
MaxTierGeometry == 1

None == <<>>

Some(value) == <<value>>

Ok(value) == [tag |-> "Ok", value |-> value]

Err(error) == [tag |-> "Err", error |-> error]

(* enum ConstraintKind, in declaration order *)
ConstraintKinds ==
    << "Coincident", "Collinear", "Coplanar", "Boundary", "Equilateral",
       "Equiangular", "Plumb", "Level", "Orthogonal" >>

BoundaryViolation(geometry_id) == [kind |-> "BoundaryViolation", geometry_id |-> geometry_id]

DeltaSetNew == <<>>

ConstraintResultSuccess == [valid |-> TRUE, deltas |-> DeltaSetNew, errors |-> <<>>]

TierTolerance == DefaultTolerance

TierTargets == <<1, 2>>

ExplicitChoices ==
    SeqsUpTo({ [kind |-> ConstraintKinds[k], targets |-> TierTargets] : k \in DOMAIN ConstraintKinds },
             MaxExplicit)

TierContext(explicit, parent_boundary_geometry) ==
    [ constraints |-> explicit,
      tolerance |-> TierTolerance,
      parent_boundary_geometry |-> parent_boundary_geometry ]

TierGeometryChoices == SeqsUpTo(Ids, MaxTierGeometry)

Origin == <<0, 0, 0>>

(* Delta { vertex_id, old_position, new_position }: the old position is    *)
(* the stored one when the vertex is stored                                *)
DeltaChoices ==
    { [ vertex_id |-> id,
        old_position |-> IF id \in DOMAIN vertices THEN vertices[id] ELSE Origin,
        new_position |-> position ] : id \in Ids, position \in PointChoices }

is_within_boundary(geometry_registry, parent_boundary_geometry, child_geometry, tolerance) == TRUE

apply_boundary(geometry_registry, context, tier_geometry) ==
    IF /\ context.parent_boundary_geometry # None
       /\ ~is_within_boundary(geometry_registry, context.parent_boundary_geometry[1],
                              tier_geometry, context.tolerance)
    THEN Err(BoundaryViolation(tier_geometry[1]))
    ELSE Ok(DeltaSetNew)

(* constraints/coincident.rs .. orthogonal.rs: each evaluator returns an   *)
(* empty DeltaSet                                                          *)
apply_kind(kind, geometry_registry, context, targets) == Ok(DeltaSetNew)

(* apply_constraints: the evaluators it calls (indices into the explicit   *)
(* constraints, in call order) and the ConstraintResult it returns         *)
apply_constraints(geometry_registry, context, tier_geometry_ids) ==
    [evaluated |-> <<>>, result |-> ConstraintResultSuccess]

(* propagate_deltas: the registry it leaves and the value it returns *)
propagate_deltas(geometry_registry, context, initial_deltas, max_iterations) ==
    [registry |-> geometry_registry, ret |-> Ok(ConstraintResultSuccess)]

ApplyBoundary ==
    \E parent \in {None} \cup { Some(ids) : ids \in TierGeometryChoices },
       tier_geometry \in TierGeometryChoices :
        LET context == TierContext(<<>>, parent)
        IN  /\ Called("apply_boundary", [context |-> context, tier_geometry |-> tier_geometry],
                      apply_boundary(vertices, context, tier_geometry))
            /\ UNCHANGED <<vertices, segments, polygons, solids, issued, returned, solverVars>>

ApplyConstraints ==
    \E explicit \in ExplicitChoices, tier_geometry_ids \in {TierTargets} :
        LET context == TierContext(explicit, None)
        IN  /\ Called("apply_constraints",
                      [context |-> context, tier_geometry_ids |-> tier_geometry_ids],
                      apply_constraints(vertices, context, tier_geometry_ids))
            /\ UNCHANGED <<vertices, segments, polygons, solids, issued, returned, solverVars>>

PropagateDeltas ==
    \E initial_deltas \in SeqsUpTo(DeltaChoices, MaxDeltas), max_iterations \in {MaxIterations} :
        LET context == TierContext(<<>>, None)
            outcome == propagate_deltas(vertices, context, initial_deltas, max_iterations)
        IN  /\ vertices' = outcome.registry
            /\ Called("propagate_deltas",
                      [initial_deltas |-> initial_deltas, max_iterations |-> max_iterations],
                      outcome.ret)
            /\ UNCHANGED <<segments, polygons, solids, issued, returned, solverVars>>

TierInit == RegInit /\ SolverNew(DefaultConfig)

TierNext ==
    \/ VertexCreateAndStore
    \/ VertexRemove
    \/ ApplyBoundary
    \/ ApplyConstraints
    \/ PropagateDeltas

TierSpec == TierInit /\ [][TierNext]_vars

----------------------------------------------------------------------------
(* domain/validations: the validation predicates, applied to given inputs  *)

MaxItems == 4

(* the arguments of the call under examination *)
Given(inputs) ==
    /\ vertices = EmptyMap
    /\ segments = EmptyMap
    /\ polygons = EmptyMap
    /\ solids = EmptyMap
    /\ issued = {}
    /\ returned = {}
    /\ SolverNew(DefaultConfig)
    /\ \E args \in inputs : last = [op |-> "given", args |-> args, ret |-> NoId]

Apply(fn, value) ==
    /\ last.op = "given"
    /\ last' = [op |-> fn, args |-> last.args, ret |-> value]
    /\ UNCHANGED <<vertices, segments, polygons, solids, issued, returned, solverVars>>

DistinctInit == Given(SeqsUpTo(Ids, MaxItems))

ValidateDistinctIds == Apply("validate_distinct_ids", validate_distinct_ids(last.args))

DistinctNext == ValidateDistinctIds

DistinctSpec == DistinctInit /\ [][DistinctNext]_vars

(* domain/validations/colinear.rs *)

MaxVertexList == 4

Millimetre == One \div 1024

VertexChoices ==
    { <<0, 0, 0>>, <<One, 0, 0>>, <<0, One, 0>>, <<0, 0, One>>, <<One, One, 0>>,
      <<One \div 2, Millimetre, 0>> }

PrecisionChoices == { 0, Millimetre, One \div 2, One }

SquaredMagnitude(v) == FMul(v[1], v[1]) + FMul(v[2], v[2]) + FMul(v[3], v[3])

cross_product(a, b) ==
    << FMul(a[2], b[3]) - FMul(a[3], b[2]),
       FMul(a[3], b[1]) - FMul(a[1], b[3]),
       FMul(a[1], b[2]) - FMul(a[2], b[1]) >>

(* the loop of the degenerate case, from position i on *)
RECURSIVE AllNearFirst(_, _, _)
AllNearFirst(vertex_list, i, precision_squared) ==
    IF i > Len(vertex_list) THEN TRUE
    ELSE IF SquaredMagnitude(measure_vector(vertex_list[1], vertex_list[i])) > precision_squared
         THEN FALSE
         ELSE AllNearFirst(vertex_list, i + 1, precision_squared)

(* the loop over the remaining vertices, from position i on *)
RECURSIVE AllOnLine(_, _, _, _)
AllOnLine(vertex_list, i, line_direction, precision_squared) ==
    IF i > Len(vertex_list) THEN TRUE
    ELSE LET to_vertex == measure_vector(vertex_list[1], vertex_list[i])
             cross == cross_product(line_direction, to_vertex)
         IN  IF SquaredMagnitude(cross) > precision_squared
             THEN FALSE
             ELSE AllOnLine(vertex_list, i + 1, line_direction, precision_squared)

validate_colinear_vertices_first_three(vertex_list, precision) ==
    IF Len(vertex_list) <= 2 THEN TRUE
    ELSE LET line_direction == measure_vector(vertex_list[1], vertex_list[2])
             precision_squared == FMul(precision, precision)
         IN  IF SquaredMagnitude(line_direction) <= precision_squared
             THEN AllNearFirst(vertex_list, 2, precision_squared)
             ELSE AllOnLine(SubSeq(vertex_list, 1, 3), 3, line_direction, precision_squared)

validate_colinear_vertices(vertex_list, precision) ==
    IF Len(vertex_list) <= 2 THEN TRUE
    ELSE LET line_direction == measure_vector(vertex_list[1], vertex_list[2])
             line_magnitude_squared == SquaredMagnitude(line_direction)
             precision_squared == FMul(precision, precision)
         IN  IF line_magnitude_squared <= precision_squared
             THEN AllNearFirst(vertex_list, 2, precision_squared)
             ELSE AllOnLine(vertex_list, 3, line_direction, precision_squared)

ColinearInit ==
    Given([vertices : SeqsUpTo(VertexChoices, MaxVertexList), precision : PrecisionChoices])

ValidateColinearVertices ==
    Apply("validate_colinear_vertices",
          validate_colinear_vertices(last.args.vertices, last.args.precision))

ColinearNext == ValidateColinearVertices

ColinearSpec == ColinearInit /\ [][ColinearNext]_vars

(* domain/validation/coplanar.rs *)

(* the loop over the vertices after the third, from position i on *)
RECURSIVE AllOnPlaneStrict(_, _, _, _, _)
AllOnPlaneStrict(vertex_list, i, normal, d, tolerance) ==
    IF i > Len(vertex_list) THEN TRUE
    ELSE LET position == vertex_list[i]
             raw_distance == FMul(normal[1], position[1]) + FMul(normal[2], position[2])
                                + FMul(normal[3], position[3]) + d
             normal_magnitude == FSqrt(SquaredMagnitude(normal))
             actual_distance == FDiv(Abs(raw_distance), normal_magnitude)
         IN  IF actual_distance >= tolerance
             THEN FALSE
             ELSE AllOnPlaneStrict(vertex_list, i + 1, normal, d, tolerance)

RECURSIVE AllOnPlane(_, _, _, _, _)
AllOnPlane(vertex_list, i, normal, d, tolerance) ==
    IF i > Len(vertex_list) THEN TRUE
    ELSE LET position == vertex_list[i]
             raw_distance == FMul(normal[1], position[1]) + FMul(normal[2], position[2])
                                + FMul(normal[3], position[3]) + d
             normal_magnitude == FSqrt(SquaredMagnitude(normal))
             actual_distance == FDiv(Abs(raw_distance), normal_magnitude)
         IN  IF actual_distance > tolerance
             THEN FALSE
             ELSE AllOnPlane(vertex_list, i + 1, normal, d, tolerance)

validate_coplanar_vertices_strict(vertex_list, tolerance) ==
    IF Len(vertex_list) <= 3 THEN TRUE
    ELSE LET v1 == vertex_list[1]
             vec1 == measure_vector(v1, vertex_list[2])
             vec2 == measure_vector(v1, vertex_list[3])
             normal == cross_product(vec1, vec2)
         IN  IF normal = <<0, 0, 0>> THEN TRUE
             ELSE LET d == -(FMul(normal[1], v1[1]) + FMul(normal[2], v1[2])
                                + FMul(normal[3], v1[3]))
                  IN  AllOnPlaneStrict(vertex_list, 4, normal, d, tolerance)

validate_coplanar_vertices(vertex_list, tolerance) ==
    IF Len(vertex_list) <= 3 THEN TRUE
    ELSE LET v1 == vertex_list[1]
             vec1 == measure_vector(v1, vertex_list[2])
             vec2 == measure_vector(v1, vertex_list[3])
             normal == cross_product(vec1, vec2)
         IN  IF normal = <<0, 0, 0>> THEN TRUE
             ELSE LET d == -(FMul(normal[1], v1[1]) + FMul(normal[2], v1[2])
                                + FMul(normal[3], v1[3]))
                  IN  AllOnPlane(vertex_list, 4, normal, d, tolerance)

(* the corners of the unit square in z = 0, as the tests list them *)
UnitSquare == << <<0, 0, 0>>, <<One, 0, 0>>, <<0, One, 0>>, <<One, One, 0>> >>

MoveZ(vertex_list, corner, delta) ==
    [vertex_list EXCEPT ![corner] = <<@[1], @[2], @[3] + delta>>]

DeltaZChoices == { 0, Millimetre, 2 * Millimetre, One \div 2, One }

ToleranceChoices == { 0, Millimetre, (7 * One) \div 16, One \div 2, (3 * One) \div 4, One }

CoplanarInit ==
    Given({ [vertices |-> MoveZ(UnitSquare, corner, delta), tolerance |-> tolerance] :
              corner \in DOMAIN UnitSquare, delta \in DeltaZChoices,
              tolerance \in ToleranceChoices })

ValidateCoplanarVertices ==
    Apply("validate_coplanar_vertices",
          validate_coplanar_vertices(last.args.vertices, last.args.tolerance))

CoplanarNext == ValidateCoplanarVertices

CoplanarSpec == CoplanarInit /\ [][CoplanarNext]_vars

(* validate_coplanar_vertices on lists of four and more vertices, the     *)
(* first three of which may lie on one line (test_degenerate_cases)        *)
MaxCoplanarList == 5

CoplanarPointChoices ==
    { <<0, 0, 0>>, <<One, 0, 0>>, <<2 * One, 0, 0>>, <<0, One, 0>>, <<0, 0, One>> }

CoplanarListInit ==
    Given({ [vertices |-> vertex_list, tolerance |-> tolerance] :
              vertex_list \in { l \in SeqsUpTo(CoplanarPointChoices, MaxCoplanarList) : Len(l) >= 4 },
              tolerance \in {0, Millimetre} })

ValidateCoplanarList ==
    Apply("validate_coplanar_vertices",
          validate_coplanar_vertices(last.args.vertices, last.args.tolerance))

CoplanarListNext == ValidateCoplanarList

CoplanarListSpec == CoplanarListInit /\ [][CoplanarListNext]_vars

(* domain/constraints: Constraint::residual, applied to given geometry *)

(* the smallest positive coordinate difference *)
Tiny == 1

ResidualPointChoices ==
    { <<0, 0, 0>>, <<0, 0, One>>, <<Tiny, 0, One>>, <<0, Millimetre, One>>,
      <<3 * One, 4 * One, 0>>, <<3 * One, 4 * One + One \div 10, 0>> }

ResidualConstraintChoices ==
    { [kind |-> "Distance", a |-> 0, b |-> 1, required |-> r, priority |-> 1] : r \in {One, 5 * One} }
    \cup
    { [kind |-> k, a |-> 0, b |-> 1, required |-> 0, priority |-> 1] :
        k \in {"Horizontal", "Vertical", "VerticalAlignment"} }
    \cup
    { [kind |-> "Height", a |-> 0, b |-> 0, required |-> r, priority |-> 1] : r \in {0, One} }

ResidualInit ==
    Given({ [constraint |-> c, geometry |-> <<a, b>>] :
              c \in ResidualConstraintChoices,
              a \in ResidualPointChoices, b \in ResidualPointChoices })

ComputeResidual == Apply("residual", residual(last.args.constraint, last.args.geometry))

ResidualNext == ComputeResidual

ResidualSpec == ResidualInit /\ [][ResidualNext]_vars

(* domain/constraints/mod.rs: relax_distance_constraint, applied to given  *)
(* geometry                                                                *)

RelaxPointChoicesA == { <<0, 0, 0>>, <<One, One, 0>> }

RelaxPointChoicesB ==
    { <<0, 0, 0>>, <<One, 0, 0>>, <<0, One, One>>, <<3 * One, 4 * One, 0>>, <<One, One, 0>> }

RequiredChoices == { 0, One \div 2, One, 2 * One }

RelaxDampingChoices == { (k * One) \div DampingSteps : k \in 0..DampingSteps }

RelaxInit ==
    Given({ [ geometry |-> <<a, b>>,
              constraint |-> [kind |-> "Distance", a |-> 0, b |-> 1, required |-> r,
                              priority |-> 1],
              damping |-> damping ] :
              a \in RelaxPointChoicesA, b \in RelaxPointChoicesB,
              r \in RequiredChoices, damping \in RelaxDampingChoices })

RelaxDistanceConstraint ==
    Apply("relax_distance_constraint",
          relax_distance_constraint(last.args.geometry, last.args.constraint, last.args.damping))

RelaxNext == RelaxDistanceConstraint

RelaxSpec == RelaxInit /\ [][RelaxNext]_vars

----------------------------------------------------------------------------
(* application/cuboid.rs, application/cube.rs: a solid built through the   *)
(* registries                                                              *)

MaxSide == 3

SideChoices == { (k * One) \div 2 : k \in 1..MaxSide }

(* 8 vertices, 12 segments, 6 polygons and 1 solid *)
CubeEntities == 27

(* the values Uuid::new_v4() returns during one construction, in order *)
UuidSupplies ==
    { [i \in 1..CubeEntities |-> i],
      [i \in 1..CubeEntities |-> CubeEntities + 1 - i],
      [i \in 1..CubeEntities |-> ((i * 5) % CubeEntities) + 1] }

(* Phase 1: the sign of each coordinate (left, bottom, back are negative) *)
CuboidCorners ==
    << [name |-> "bottom_back_left", x |-> -1, y |-> -1, z |-> -1],
       [name |-> "bottom_back_right", x |-> 1, y |-> -1, z |-> -1],
       [name |-> "bottom_front_right", x |-> 1, y |-> -1, z |-> 1],
       [name |-> "bottom_front_left", x |-> -1, y |-> -1, z |-> 1],
       [name |-> "top_back_left", x |-> -1, y |-> 1, z |-> -1],
       [name |-> "top_back_right", x |-> 1, y |-> 1, z |-> -1],
       [name |-> "top_front_right", x |-> 1, y |-> 1, z |-> 1],
       [name |-> "top_front_left", x |-> -1, y |-> 1, z |-> 1] >>

(* Phase 3: the segments, in the order of their creation *)
CuboidEdges ==
    << [name |-> "bottom_left", start |-> "bottom_back_left", end |-> "bottom_front_left"],
       [name |-> "bottom_back", start |-> "bottom_back_right", end |-> "bottom_back_left"],
       [name |-> "bottom_right", start |-> "bottom_front_right", end |-> "bottom_back_right"],
       [name |-> "bottom_front", start |-> "bottom_front_left", end |-> "bottom_front_right"],
       [name |-> "top_left", start |-> "top_back_left", end |-> "top_front_left"],
       [name |-> "top_back", start |-> "top_back_right", end |-> "top_back_left"],
       [name |-> "top_right", start |-> "top_front_right", end |-> "top_back_right"],
       [name |-> "top_front", start |-> "top_front_left", end |-> "top_front_right"],
       [name |-> "back_left", start |-> "bottom_back_left", end |-> "top_back_left"],
       [name |-> "back_right", start |-> "bottom_back_right", end |-> "top_back_right"],
       [name |-> "front_right", start |-> "bottom_front_right", end |-> "top_front_right"],
       [name |-> "front_left", start |-> "bottom_front_left", end |-> "top_front_left"] >>

(* the top face closed with an edge of the bottom face *)
CuboidFacesTopMisbuilt ==
    << [name |-> "bottom_face", segments |-> <<"bottom_left", "bottom_back", "bottom_right", "bottom_front">>],
       [name |-> "top_face", segments |-> <<"top_right", "top_back", "top_left", "bottom_front">>],
       [name |-> "back_face", segments |-> <<"back_left", "bottom_back", "back_right", "top_back">>],
       [name |-> "front_face", segments |-> <<"front_left", "bottom_front", "top_front", "front_right">>],
       [name |-> "left_face", segments |-> <<"bottom_left", "front_left", "top_left", "back_left">>],
       [name |-> "right_face", segments |-> <<"bottom_right", "back_right", "top_right", "front_right">>] >>

(* Phase 5: the polygons, in the order of their creation *)
CuboidFaces ==
    << [name |-> "bottom_face", segments |-> <<"bottom_left", "bottom_back", "bottom_right", "bottom_front">>],
       [name |-> "top_face", segments |-> <<"top_right", "top_back", "top_left", "top_front">>],
       [name |-> "back_face", segments |-> <<"back_left", "bottom_back", "back_right", "top_back">>],
       [name |-> "front_face", segments |-> <<"front_left", "bottom_front", "top_front", "front_right">>],
       [name |-> "left_face", segments |-> <<"bottom_left", "front_left", "top_left", "back_left">>],
       [name |-> "right_face", segments |-> <<"bottom_right", "back_right", "top_right", "front_right">>] >>

(* Phase 7: the polygons handed to the solid *)
SolidFaces == <<"bottom_face", "top_face", "back_face", "front_face", "left_face", "right_face">>

IndexOf(table, name) == CHOOSE i \in DOMAIN table : table[i].name = name

(* create_and_store called once for each of ids[i], values[i], i <= n *)
RECURSIVE StoreAll(_, _, _, _)
StoreAll(map, ids, values, n) ==
    IF n = 0 THEN map
    ELSE Insert(StoreAll(map, ids, values, n - 1), ids[n], values[n])

(* the construction both functions carry out, on the given registries;    *)
(* a polygon the registry rejects ends it (expect)                         *)
BuildSolid(registries, half_width, half_height, half_depth, uuids) ==
    LET corners == Len(CuboidCorners)
        edges == Len(CuboidEdges)
        faces == Len(CuboidFaces)
        vertex_id(name) == uuids[IndexOf(CuboidCorners, name)]
        segment_id(name) == uuids[corners + IndexOf(CuboidEdges, name)]
        polygon_id(name) == uuids[corners + edges + IndexOf(CuboidFaces, name)]
        solid_id == uuids[corners + edges + faces + 1]
        created_vertices ==
            [i \in 1..corners |->
                new_vertex(<< CuboidCorners[i].x * half_width,
                              CuboidCorners[i].y * half_height,
                              CuboidCorners[i].z * half_depth >>)]
        created_segments ==
            [i \in 1..edges |->
                new_segment(vertex_id(CuboidEdges[i].start), vertex_id(CuboidEdges[i].end))]
        created_polygons ==
            [i \in 1..faces |->
                new_polygon([k \in 1..Len(CuboidFaces[i].segments) |->
                                segment_id(CuboidFaces[i].segments[k])])]
        rejected == { i \in 1..faces : ~created_polygons[i].ok }
        stored_faces == IF rejected = {} THEN faces
                        ELSE (CHOOSE i \in rejected : \A j \in rejected : i <= j) - 1
        ok == rejected = {}
        used == corners + edges + stored_faces + (IF ok THEN 1 ELSE 0)
    IN  [ vertices |-> StoreAll(registries.vertices, uuids, created_vertices, corners),
          segments |-> StoreAll(registries.segments, [i \in 1..edges |-> uuids[corners + i]],
                                created_segments, edges),
          polygons |-> StoreAll(registries.polygons,
                                [i \in 1..faces |-> uuids[corners + edges + i]],
                                [i \in 1..faces |-> created_polygons[i].segments], stored_faces),
          solids |-> IF ok
                     THEN Insert(registries.solids, solid_id,
                                 new_solid([k \in 1..Len(SolidFaces) |-> polygon_id(SolidFaces[k])]))
                     ELSE registries.solids,
          issued |-> { uuids[i] : i \in 1..used },
          ret |-> IF ok THEN Some(solid_id) ELSE None ]

create_rectangular_solid(registries, width, height, depth, uuids) ==
    BuildSolid(registries, FHalf(width), FHalf(height), FHalf(depth), uuids)

create_cube(registries, uuids) ==
    BuildSolid(registries, One \div 2, One \div 2, One \div 2, uuids)

Registries ==
    [vertices |-> vertices, segments |-> segments, polygons |-> polygons, solids |-> solids]

Built(op, built) ==
    /\ vertices' = built.vertices
    /\ segments' = built.segments
    /\ polygons' = built.polygons
    /\ solids' = built.solids
    /\ issued' = issued \cup built.issued
    /\ returned' = returned \cup built.issued
    /\ last' = [op |-> op, args |-> last.args, ret |-> built.ret]
    /\ UNCHANGED solverVars

CubeInit ==
    Given({ [width |-> width, height |-> height, depth |-> depth, uuids |-> uuids] :
              width \in SideChoices, height \in SideChoices, depth \in SideChoices,
              uuids \in UuidSupplies })

CreateRectangularSolid ==
    /\ last.op = "given"
    /\ Built("create_rectangular_solid",
             create_rectangular_solid(Registries, last.args.width, last.args.height,
                                      last.args.depth, last.args.uuids))

CreateCube ==
    /\ last.op = "given"
    /\ Built("create_cube", create_cube(Registries, last.args.uuids))

CubeNext ==
    \/ CreateRectangularSolid
    \/ CreateCube

CubeSpec == CubeInit /\ [][CubeNext]_vars

----------------------------------------------------------------------------
(* application/triangulation.rs: triangulate_polygon_for_rendering *)

MaxPolygonSegments == 4

(* bevy Vec3 *)
Vec3Add(a, b) == << a[1] + b[1], a[2] + b[2], a[3] + b[3] >>

Vec3Sub(a, b) == << a[1] - b[1], a[2] - b[2], a[3] - b[3] >>

Vec3Neg(a) == << -a[1], -a[2], -a[3] >>

(* Vec3 / f32 for a whole number n > 0 *)
Vec3DivCount(a, n) ==
    << Sign(a[1]) * (Abs(a[1]) \div n), Sign(a[2]) * (Abs(a[2]) \div n),
       Sign(a[3]) * (Abs(a[3]) \div n) >>

Vec3Dot(a, b) == FMul(a[1], b[1]) + FMul(a[2], b[2]) + FMul(a[3], b[3])

(* Vec3::normalize: the vector times the reciprocal of its length; of a    *)
(* vector of length 0 every component is NaN                               *)
Vec3Normalize(a) ==
    LET length == Norm(a)
    IN  IF length = 0 THEN [nan |-> TRUE, v |-> <<0, 0, 0>>]
        ELSE LET length_recip == FDiv(One, length)
             IN  [nan |-> FALSE,
                  v |-> << FMul(a[1], length_recip), FMul(a[2], length_recip),
                           FMul(a[3], length_recip) >>]

RECURSIVE Vec3Sum(_, _)
Vec3Sum(positions, n) ==
    IF n = 0 THEN <<0, 0, 0>> ELSE Vec3Add(Vec3Sum(positions, n - 1), positions[n])

RECURSIVE SumOfValues(_, _)
SumOfValues(map, keys) ==
    IF keys = {} THEN <<0, 0, 0>>
    ELSE LET k == CHOOSE x \in keys : TRUE
         IN  Vec3Add(SumOfValues(map, keys \ {k}), map[k])

Clockwise == "Clockwise"

CounterClockwise == "CounterClockwise"

TriangulationPanicked == [tag |-> "Panicked", faces |-> <<>>]

Triangulated(faces) == [tag |-> "Returned", faces |-> faces]

(* Step 1: how often the segments of the polygon name a vertex *)
vertex_counts(polygon, segment_map) ==
    LET touched == UNION { { segment_map[polygon[k]][1], segment_map[polygon[k]][2] } :
                                k \in DOMAIN polygon }
    IN  [v \in touched |->
            Cardinality({ k \in DOMAIN polygon : segment_map[polygon[k]][1] = v })
          + Cardinality({ k \in DOMAIN polygon : segment_map[polygon[k]][2] = v })]

(* Step 1: the vertices pushed to the entry of vertex v, in push order *)
RECURSIVE ConnectionsOf(_, _, _, _)
ConnectionsOf(polygon, segment_map, v, n) ==
    IF n = 0 THEN <<>>
    ELSE LET segment == segment_map[polygon[n]]
             before == ConnectionsOf(polygon, segment_map, v, n - 1)
             first == IF segment[1] = v THEN Append(before, segment[2]) ELSE before
         IN  IF segment[2] = v THEN Append(first, segment[1]) ELSE first

vertex_connections(polygon, segment_map) ==
    [v \in DOMAIN vertex_counts(polygon, segment_map) |->
        ConnectionsOf(polygon, segment_map, v, Len(polygon))]

(* connections.iter().find(|id| !visited_vertices.contains(id)) *)
FindUnvisited(connections, visited_vertices) ==
    LET unvisited == { i \in DOMAIN connections : connections[i] \notin visited_vertices }
    IN  IF unvisited = {} THEN None
        ELSE Some(connections[CHOOSE i \in unvisited : \A j \in unvisited : i <= j])

(* Step 2: the walk along the connections; the walk the missing position   *)
(* of a vertex aborts is reported by ok = FALSE                            *)
RECURSIVE FollowPath(_, _, _, _, _, _)
FollowPath(connections, counted, vertex_map, vertex_id, ordered_ids, visited_vertices) ==
    IF ~(Cardinality(visited_vertices) < counted) THEN [ok |-> TRUE, ids |-> ordered_ids]
    ELSE IF vertex_id \notin DOMAIN vertex_map THEN [ok |-> FALSE, ids |-> ordered_ids]
    ELSE LET pushed == Append(ordered_ids, vertex_id)
             visited == visited_vertices \cup {vertex_id}
             next_vertex_id == FindUnvisited(connections[vertex_id], visited)
         IN  IF next_vertex_id = None THEN [ok |-> TRUE, ids |-> pushed]
             ELSE FollowPath(connections, counted, vertex_map, next_vertex_id[1], pushed, visited)

(* Steps 3 to 5, for the ordered positions of at least three vertices *)
FanOut(ordered_vertices, vertex_map) ==
    LET solid_center == Vec3DivCount(SumOfValues(vertex_map, DOMAIN vertex_map),
                                     Cardinality(DOMAIN vertex_map))
        polygon_center == Vec3DivCount(Vec3Sum(ordered_vertices, Len(ordered_vertices)),
                                       Len(ordered_vertices))
        solid_to_polygon == Vec3Sub(polygon_center, solid_center)
        v0 == ordered_vertices[1]
        edge1 == Vec3Sub(ordered_vertices[2], v0)
        edge2 == Vec3Sub(ordered_vertices[3], v0)
        face_normal == Vec3Normalize(cross_product(edge1, edge2))
        normal_dot_solid_to_face == Vec3Dot(face_normal.v, solid_to_polygon)
        outward == ~face_normal.nan /\ normal_dot_solid_to_face > 0
        winding_order == IF outward THEN CounterClockwise ELSE Clockwise
        normal == IF outward THEN face_normal
                  ELSE [nan |-> face_normal.nan, v |-> Vec3Neg(face_normal.v)]
        triangle_count == Len(ordered_vertices) - 2
    IN  [i \in 1..triangle_count |->
            [vertices |-> IF winding_order = CounterClockwise
                          THEN << v0, ordered_vertices[i + 1], ordered_vertices[i + 2] >>
                          ELSE << v0, ordered_vertices[i + 2], ordered_vertices[i + 1] >>,
             normal |-> normal,
             winding_order |-> winding_order]]

(* the vertices the iteration over vertex_connections may yield first *)
StartChoices(polygon, segment_map) ==
    IF \E k \in DOMAIN polygon : polygon[k] \notin DOMAIN segment_map THEN {NoId}
    ELSE LET connections == vertex_connections(polygon, segment_map)
             with_two == { v \in DOMAIN connections : Len(connections[v]) = 2 }
         IN  IF with_two = {} THEN {NoId} ELSE with_two

triangulate_polygon_for_rendering(polygon, segment_map, vertex_map, start) ==
    IF \E k \in DOMAIN polygon : polygon[k] \notin DOMAIN segment_map
    THEN TriangulationPanicked
    ELSE LET counts == vertex_counts(polygon, segment_map)
             connections == vertex_connections(polygon, segment_map)
             valid_loop == \A v \in DOMAIN counts : counts[v] = 2
         IN  IF ~valid_loop THEN Triangulated(<<>>)
             ELSE IF start = NoId THEN Triangulated(<<>>)
             ELSE LET path == FollowPath(connections, Cardinality(DOMAIN counts), vertex_map,
                                         start, <<>>, {})
                  IN  IF ~path.ok THEN TriangulationPanicked
                      ELSE IF Len(path.ids) # Cardinality(DOMAIN counts) THEN Triangulated(<<>>)
                      ELSE IF Len(path.ids) < 3 THEN TriangulationPanicked
                      ELSE Triangulated(FanOut([k \in DOMAIN path.ids |-> vertex_map[path.ids[k]]],
                                               vertex_map))

(* a square face in z = 0 and segments over its corners: the four sides,   *)
(* a diagonal, a segment from a vertex to itself (no check forbids it)     *)
(* and a second segment along two of the sides                             *)
SquareVertices ==
    [id \in 1..4 |-> << <<0, 0, 0>>, <<One, 0, 0>>, <<One, One, 0>>, <<0, One, 0>> >>[id]]

SquareSegments ==
    [id \in 5..12 |->
        << new_segment(1, 2), new_segment(2, 3), new_segment(3, 4), new_segment(4, 1),
           new_segment(1, 3), new_segment(1, 1), new_segment(2, 1), new_segment(4, 3) >>[id - 4]]

SquarePolygonId == 13

PolygonChoices ==
    { segment_ids \in SeqsUpTo(DOMAIN SquareSegments, MaxPolygonSegments) :
        new_polygon(segment_ids).ok }

(* registries holding the square and one polygon over its segments, with   *)
(* all four vertices or with the last one removed again                    *)
SquareRegistries ==
    { [vertices |-> stored_vertices,
       segments |-> SquareSegments,
       polygons |-> Insert(EmptyMap, SquarePolygonId, new_polygon(segment_ids).segments),
       solids |-> EmptyMap] :
        stored_vertices \in { SquareVertices, Remove(SquareVertices, 4) },
        segment_ids \in PolygonChoices }

EmptyRegistries ==
    [vertices |-> EmptyMap, segments |-> EmptyMap, polygons |-> EmptyMap, solids |-> EmptyMap]

(* the corners of a second cube, three units to the right of the first *)
OtherSolidVertices ==
    [i \in 1..Len(CuboidCorners) |->
        new_vertex(<< CuboidCorners[i].x * (One \div 2) + 3 * One,
                      CuboidCorners[i].y * (One \div 2),
                      CuboidCorners[i].z * (One \div 2) >>)]

(* registries holding the cube create_cube builds, alone or together with  *)
(* the vertices of the second cube                                         *)
CubeRegistries ==
    LET cube == create_cube(EmptyRegistries, [i \in 1..CubeEntities |-> i])
        both == StoreAll(cube.vertices, [i \in 1..Len(CuboidCorners) |-> CubeEntities + i],
                         OtherSolidVertices, Len(CuboidCorners))
    IN  { [vertices |-> stored_vertices, segments |-> cube.segments,
           polygons |-> cube.polygons, solids |-> cube.solids] :
            stored_vertices \in { cube.vertices, both } }

TriangulationInit ==
    /\ \E registries \in SquareRegistries \cup CubeRegistries :
            /\ vertices = registries.vertices
            /\ segments = registries.segments
            /\ polygons = registries.polygons
            /\ solids = registries.solids
            /\ issued = (DOMAIN registries.vertices) \cup (DOMAIN registries.segments)
                            \cup (DOMAIN registries.polygons) \cup (DOMAIN registries.solids)
            /\ returned = issued
    /\ last = [op |-> "none", args |-> <<>>, ret |-> NoId]
    /\ SolverNew(DefaultConfig)

(* create_mesh_from_solid's call for one stored polygon *)
TriangulatePolygonForRendering ==
    /\ last.op = "none"
    /\ \E polygon_id \in DOMAIN polygons :
        \E start \in StartChoices(polygons[polygon_id], segments) :
            Called("triangulate_polygon_for_rendering",
                   [polygon |-> polygon_id, start |-> start],
                   triangulate_polygon_for_rendering(polygons[polygon_id], segments, vertices, start))
    /\ UNCHANGED <<vertices, segments, polygons, solids, issued, returned, solverVars>>

TriangulationNext == TriangulatePolygonForRendering

TriangulationSpec == TriangulationInit /\ [][TriangulationNext]_vars

----------------------------------------------------------------------------
(* Properties of the constraint solver *)

SolveReturnedConvergedBelowTolerance ==
    /\ result.tag = "Converged"
    /\ ~ResidualPanics(constraints, points)
    /\ MaxResidual(constraints, points) < config.tolerance

(* C1 as stated: for every damping in (0, 1], with max_iterations = 100    *)
(* and the default tolerance, the solver of two points at distance 1 and   *)
(* one distance constraint of 2 returns Converged with the residual below  *)
(* tolerance.                                                              *)
C1_ConvergesForEveryDamping ==
    /\ checks <= DefaultMaxIterations
    /\ pc = "done" => SolveReturnedConvergedBelowTolerance

(* C1 amended: the same for every damping in [3/16, 1].                    *)
C1_ConvergesForDampingFromThreeSixteenths ==
    /\ checks <= DefaultMaxIterations
    /\ (pc = "done" /\ 16 * config.damping >= 3 * One)
            => SolveReturnedConvergedBelowTolerance

C1_Witness ==
    /\ pc = "done"
    /\ 16 * config.damping >= 3 * One
    /\ 2 * config.damping < One
    /\ SolveReturnedConvergedBelowTolerance
    /\ result.n > 20
    /\ passes = result.n - 1

(* C2: solve() ends in an outcome for every geometry and constraint set:   *)
(* at most max_iterations checks and relaxation passes are made, and when  *)
(* no check found the maximum residual below tolerance the outcome is      *)
(* MaxIterationsReached.                                                   *)
C2_SolveEndsInAnOutcome ==
    /\ checks <= config.max_iterations
    /\ passes <= config.max_iterations
    /\ pc = "done" => result.tag \in {"Converged", "MaxIterationsReached"}
    /\ (pc = "done" /\ constraints # <<>> /\ result.tag # "Converged")
            => result = MaxIterationsReached

(* C13: when solve() evaluates a constraint that names a point index       *)
(* missing from the geometry, it reports the error GeometryNotFound; it    *)
(* neither aborts nor skips the missing point.                             *)
MeetsMissingPoint ==
    /\ pc = "done"
    /\ constraints # <<>>
    /\ config.max_iterations > 0
    /\ ResidualPanics(constraints, points)

C13_MissingPointReportedAsGeometryNotFound ==
    MeetsMissingPoint => result.tag = "GeometryNotFound"

(* C3: solve() orders the constraints by ascending priority, equal         *)
(* priorities in the order of add_constraint; every relaxation pass        *)
(* applies the distance constraints in that order, each to the positions   *)
(* the previous one wrote.                                                 *)
IsPriorityOrder(cs) ==
    \A i \in 1..Len(cs), j \in 1..Len(cs) :
        i < j => \/ cs[i].priority < cs[j].priority
                 \/ (cs[i].priority = cs[j].priority /\ cs[i].decl < cs[j].decl)

PassFollowsOrder(cs, before, log, after, damping) ==
    LET ds == SelectSeq(cs, IsDistance)
    IN  /\ Len(log) = Len(ds)
        /\ \A k \in 1..Len(ds) :
                /\ log[k].decl = ds[k].decl
                /\ log[k].read = IF k = 1 THEN before ELSE log[k - 1].wrote
                /\ log[k].wrote = relax_distance_constraint(log[k].read, ds[k], damping)
        /\ after = IF ds = <<>> THEN before ELSE log[Len(ds)].wrote

C3_PriorityThenDeclarationOrder ==
    [][ /\ pc' \in {"check", "relax"} => IsPriorityOrder(constraints')
        /\ (pc = "relax" /\ pc' = "check")
                => PassFollowsOrder(constraints, points, relaxLog', points', config.damping) ]_vars

C3_Witness ==
    /\ passes > 0
    /\ Len(relaxLog) = 2
    /\ constraints[1].decl = 2
    /\ constraints[1].priority < constraints[2].priority
    /\ relaxLog[1].decl = 2
    /\ relaxLog[2].read = relaxLog[1].wrote
    /\ relaxLog[2].wrote # relaxLog[2].read

(* C4: solve() with no constraints returns Converged(0) and changes no     *)
(* point, whatever the points and the configuration.                      *)
C4_NoConstraintsConvergedZero ==
    [][ (pc = "idle" /\ constraints = <<>> /\ pc' # "idle")
            => /\ pc' = "done"
               /\ result' = Converged(0)
               /\ points' = points
               /\ passes' = 0 ]_vars

C4_Witness ==
    /\ pc = "done"
    /\ constraints = <<>>
    /\ result = Converged(0)
    /\ Len(points) = MaxPoints
    /\ config.max_iterations = 0


----------------------------------------------------------------------------
(* Properties of the registries *)

CreateOps ==
    { "vertex_create_and_store", "segment_create_and_store",
      "polygon_create_and_store", "solid_create_and_store" }

HasRepeat(items) ==
    \E i \in 1..Len(items), j \in 1..Len(items) : i < j /\ items[i] = items[j]

Endpoints(pair) == { pair[1], pair[2] }

AllStored == (DOMAIN vertices) \cup (DOMAIN segments) \cup (DOMAIN polygons) \cup (DOMAIN solids)

(* C5: PolygonRegistry.create_and_store called with a segment-id list in   *)
(* which some id occurs more than once returns no identifier and leaves    *)
(* the polygon registry exactly as it was, whatever creates and removes    *)
(* came before.                                                            *)
C5_DuplicateSegmentsRejected ==
    [][ (last'.op = "polygon_create_and_store" /\ HasRepeat(last'.args))
            => (last'.ret = NoId /\ polygons' = polygons) ]_vars

C5_Witness ==
    /\ last.op = "polygon_create_and_store"
    /\ HasRepeat(last.args)
    /\ last.ret = NoId
    /\ DOMAIN polygons # {}
    /\ issued \ AllStored # {}

(* C6: a segment built from two distinct vertex ids stores exactly those   *)
(* two ids with the smaller one first, so segments built from (a, b) and   *)
(* from (b, a) store the same endpoint pair.                               *)
C6_SegmentOrderNormalized ==
    /\ (last.op = "segment_create_and_store" /\ last.args[1] # last.args[2])
            => /\ last.ret \in DOMAIN segments
               /\ Endpoints(segments[last.ret]) = Endpoints(last.args)
               /\ segments[last.ret][1] < segments[last.ret][2]
    /\ \A s \in DOMAIN segments, t \in DOMAIN segments :
            Endpoints(segments[s]) = Endpoints(segments[t]) => segments[s] = segments[t]

C6_Witness ==
    /\ last.op = "segment_create_and_store"
    /\ last.args[1] > last.args[2]
    /\ \E t \in (DOMAIN segments) \ {last.ret} : segments[t] = segments[last.ret]

(* C7: segment construction with start_vertex = end_vertex fails and       *)
(* stores nothing, so every stored segment has two different endpoint ids. *)
C7_NoSelfLoopStored ==
    /\ (last.op = "segment_create_and_store" /\ last.args[1] = last.args[2])
            => last.ret = NoId
    /\ \A s \in DOMAIN segments : segments[s][1] # segments[s][2]

(* C8: every polygon the registry accepts and stores is one closed cycle:  *)
(* its segments are stored segments and every vertex they touch is an      *)
(* endpoint of exactly two of them.                                        *)
PolygonSegmentIds(p) == { polygons[p][i] : i \in 1..Len(polygons[p]) }

TouchedVertices(p) ==
    UNION { Endpoints(segments[s]) : s \in PolygonSegmentIds(p) \cap DOMAIN segments }

Degree(p, v) ==
    Cardinality({ s \in PolygonSegmentIds(p) \cap DOMAIN segments : v \in Endpoints(segments[s]) })

C8_StoredPolygonIsClosedCycle ==
    (last.op = "polygon_create_and_store" /\ last.ret # NoId /\ last.ret \in DOMAIN polygons)
        => /\ Len(polygons[last.ret]) > 0
           /\ PolygonSegmentIds(last.ret) \subseteq DOMAIN segments
           /\ \A v \in TouchedVertices(last.ret) : Degree(last.ret, v) = 2

(* C9: every successful create_and_store, on any of the four registries,   *)
(* returns an identifier that no earlier create_and_store returned, also   *)
(* when the earlier entry has been removed since.                          *)
C9_IdentifiersNeverReused ==
    [][ (last'.op \in CreateOps /\ last'.ret # NoId)
            => last'.ret \notin returned ]_vars

C9_Witness ==
    /\ last.op \in CreateOps
    /\ last.ret # NoId
    /\ returned \ (AllStored \cup {last.ret}) # {}

(* C10: after a successful create_and_store returned id, get(id) yields    *)
(* the entity holding the inputs given (position; normalized endpoint      *)
(* pair; segment ids in order; polygon ids in order), the registry holds   *)
(* one more entry than before, and every earlier entry is unchanged.       *)
StoredAfter(before, after, id, value) ==
    /\ Get(after, id) = <<value>>
    /\ Cardinality(DOMAIN after) = Cardinality(DOMAIN before) + 1
    /\ \A k \in DOMAIN before : Get(after, k) = Get(before, k)

SortedPair(pair) ==
    IF pair[1] <= pair[2] THEN <<pair[1], pair[2]>> ELSE <<pair[2], pair[1]>>

C10_CreateThenGet ==
    [][ last'.ret # NoId =>
          /\ last'.op = "vertex_create_and_store"
                => StoredAfter(vertices, vertices', last'.ret, last'.args)
          /\ last'.op = "segment_create_and_store"
                => StoredAfter(segments, segments', last'.ret, SortedPair(last'.args))
          /\ last'.op = "polygon_create_and_store"
                => StoredAfter(polygons, polygons', last'.ret, last'.args)
          /\ last'.op = "solid_create_and_store"
                => StoredAfter(solids, solids', last'.ret, last'.args) ]_vars

C10_Witness ==
    /\ last.op = "solid_create_and_store"
    /\ Len(last.args) = 2
    /\ Get(solids, last.ret) = <<last.args>>
    /\ Cardinality(DOMAIN solids) = 2

RemoveOps == { "vertex_remove", "segment_remove", "polygon_remove", "solid_remove" }

RegistryOf(op, v, s, p, o) ==
    CASE op \in { "vertex_remove", "vertex_create_and_store" } -> v
      [] op \in { "segment_remove", "segment_create_and_store" } -> s
      [] op \in { "polygon_remove", "polygon_create_and_store" } -> p
      [] OTHER -> o

(* C11: remove(id) on any registry never fails: removing an absent id      *)
(* leaves the registry unchanged, removing the same id a second time       *)
(* changes nothing more, and after remove(id) get(id) returns nothing      *)
(* while every other entry is unchanged.                                   *)
C11_RemoveIsIdempotent ==
    [][ last'.op \in RemoveOps =>
          LET id == last'.args[1]
              before == RegistryOf(last'.op, vertices, segments, polygons, solids)
              after == RegistryOf(last'.op, vertices', segments', polygons', solids')
          IN  /\ last'.ret = NoId
              /\ Get(before, id) = <<>> => after = before
              /\ last = last' => after = before
              /\ Get(after, id) = <<>>
              /\ \A k \in Ids \ {id} : Get(after, k) = Get(before, k) ]_vars

C11_Witness ==
    /\ last.op \in RemoveOps
    /\ last.args[1] \in returned
    /\ Get(RegistryOf(last.op, vertices, segments, polygons, solids), last.args[1]) = <<>>
    /\ AllStored # {}

(* C12: removing a vertex, a segment or a polygon removes only that entry  *)
(* from its own registry and changes no other registry: segments, polygons *)
(* and solids that reference the removed id stay stored, still holding     *)
(* the dangling id.                                                        *)
References(entity, id) == \E i \in 1..Len(entity) : entity[i] = id

C12_RemoveDoesNotCascade ==
    [][ last'.op \in { "vertex_remove", "segment_remove", "polygon_remove" } =>
          LET id == last'.args[1]
          IN  /\ DOMAIN vertices' = (DOMAIN vertices) \ (IF last'.op = "vertex_remove" THEN {id} ELSE {})
              /\ DOMAIN segments' = (DOMAIN segments) \ (IF last'.op = "segment_remove" THEN {id} ELSE {})
              /\ DOMAIN polygons' = (DOMAIN polygons) \ (IF last'.op = "polygon_remove" THEN {id} ELSE {})
              /\ DOMAIN solids' = DOMAIN solids
              /\ \A s \in DOMAIN segments' : segments'[s] = segments[s]
              /\ \A p \in DOMAIN polygons' : polygons'[p] = polygons[p]
              /\ \A o \in DOMAIN solids' : solids'[o] = solids[o] ]_vars

C12_Witness ==
    /\ last.op = "vertex_remove"
    /\ last.args[1] \in returned
    /\ last.args[1] \notin DOMAIN vertices
    /\ \E s \in DOMAIN segments : References(segments[s], last.args[1])

----------------------------------------------------------------------------
(* Properties of the tiered solver *)

StoredIn(ids) == { ids[i] : i \in DOMAIN ids } \cap DOMAIN vertices

(* the position lies beyond every boundary vertex, by more than the        *)
(* tolerance, along some axis                                              *)
OutsideBy(position, boundary, tolerance) ==
    /\ boundary # {}
    /\ \E axis \in 1..3 :
          \/ \A b \in boundary : position[axis] > vertices[b][axis] + tolerance
          \/ \A b \in boundary : position[axis] < vertices[b][axis] - tolerance

Offending(context, tier_geometry) ==
    IF context.parent_boundary_geometry = None THEN {}
    ELSE { c \in StoredIn(tier_geometry) :
             OutsideBy(vertices[c], StoredIn(context.parent_boundary_geometry[1]),
                       context.tolerance) }

(* C14: boundary enforcement is pure validation: with a parent boundary    *)
(* and a child vertex outside it by more than the tolerance,               *)
(* is_within_boundary is false and apply_boundary returns                  *)
(* BoundaryViolation naming an offending child id, with no deltas; with no *)
(* parent boundary, or every child vertex inside, it returns an empty      *)
(* DeltaSet and no error.                                                  *)
C14_BoundaryIsPureValidation ==
    last.op = "apply_boundary" =>
        LET context == last.args.context
            tier_geometry == last.args.tier_geometry
            offending == Offending(context, tier_geometry)
        IN  /\ offending # {} =>
                  /\ ~is_within_boundary(vertices, context.parent_boundary_geometry[1],
                                         tier_geometry, context.tolerance)
                  /\ last.ret.tag = "Err"
                  /\ last.ret.error.kind = "BoundaryViolation"
                  /\ last.ret.error.geometry_id \in offending
            /\ offending = {} => last.ret = Ok(DeltaSetNew)

KindRank(kind) == CHOOSE k \in DOMAIN ConstraintKinds : ConstraintKinds[k] = kind

RECURSIVE CollectDeltas(_, _, _)
CollectDeltas(context, evaluated, j) ==
    IF j > Len(evaluated) THEN DeltaSetNew
    ELSE LET c == context.constraints[evaluated[j]]
         IN  apply_kind(c.kind, vertices, context, c.targets).value
                \o CollectDeltas(context, evaluated, j + 1)

(* C15: apply_constraints evaluates every explicit constraint of the tier, *)
(* in the fixed kind order Coincident, Collinear, Coplanar, Boundary,      *)
(* Equilateral, Equiangular, Plumb, Level, Orthogonal whatever the         *)
(* declaration order, and collects the deltas they produce in the result.  *)
C15_FixedKindOrder ==
    last.op = "apply_constraints" =>
        LET context == last.args.context
            evaluated == last.ret.evaluated
        IN  /\ \A i \in DOMAIN context.constraints :
                  \E j \in DOMAIN evaluated : evaluated[j] = i
            /\ \A j \in DOMAIN evaluated, k \in DOMAIN evaluated :
                  j < k => KindRank(context.constraints[evaluated[j]].kind)
                              <= KindRank(context.constraints[evaluated[k]].kind)
            /\ last.ret.result.deltas = CollectDeltas(context, evaluated, 1)

(* C16: when propagate_deltas returns successfully for a non-empty initial *)
(* DeltaSet, every vertex named by a delta and stored in the registry has  *)
(* the new_position of the last delta that names it.                       *)
C16_DeltasOverwritePositions ==
    (last.op = "propagate_deltas" /\ last.args.initial_deltas # <<>> /\ last.ret.tag = "Ok") =>
        LET deltas == last.args.initial_deltas
        IN  \A i \in DOMAIN deltas :
              ( /\ deltas[i].vertex_id \in DOMAIN vertices
                /\ \A j \in DOMAIN deltas : j > i => deltas[j].vertex_id # deltas[i].vertex_id )
                  => vertices[deltas[i].vertex_id] = deltas[i].new_position

----------------------------------------------------------------------------
(* Properties of the validation predicates *)

(* C17: validate_distinct_ids(items) is true if and only if no id occurs   *)
(* more than once in items: true for the empty list and for every          *)
(* one-element list, false for every list repeating an id at any two       *)
(* positions.                                                              *)
C17_DistinctIffNoRepeat ==
    last.op = "validate_distinct_ids" =>
        /\ last.ret = ~HasRepeat(last.args)
        /\ Len(last.args) <= 1 => last.ret = TRUE

C17_Witness ==
    /\ last.op = "validate_distinct_ids"
    /\ Len(last.args) >= 3
    /\ last.args[1] = last.args[3]
    /\ last.args[1] # last.args[2]
    /\ last.ret = FALSE

(* C18: validate_colinear_vertices(vertices, precision) is true for every  *)
(* list of at most 2 vertices; for a longer list whose first two vertices  *)
(* are farther apart than precision it is true iff every later vertex has  *)
(* squared cross product (line direction x vector from the first vertex)   *)
(* at most precision squared; when the first two vertices coincide within  *)
(* precision it is true iff every vertex lies within precision of the      *)
(* first.                                                                  *)
FirstTwoApart(vertex_list, precision) ==
    SquaredMagnitude(measure_vector(vertex_list[1], vertex_list[2])) > FMul(precision, precision)

MovedCorners(vertex_list) == { c \in DOMAIN vertex_list : vertex_list[c][3] # 0 }

MovedBy(vertex_list) ==
    IF MovedCorners(vertex_list) = {} THEN 0
    ELSE vertex_list[CHOOSE c \in MovedCorners(vertex_list) : TRUE][3]

(* C19 as stated: validate_coplanar_vertices on the four corners of the    *)
(* unit square in z = 0 is true at tolerance 0, and after moving the z of  *)
(* any one of the four corners by delta >= 0 it is true if and only if     *)
(* delta <= tolerance.                                                     *)
C19_MovedCornerWithinIffDelta ==
    last.op = "validate_coplanar_vertices" =>
        last.ret = (MovedBy(last.args.vertices) <= last.args.tolerance)

(* C19 amended: the same when the moved corner is the fourth one (the      *)
(* vertex measured against the plane of the first three); when one of the  *)
(* first three corners is moved, delta <= tolerance implies true.          *)
C19_FourthCornerWithinIffDelta ==
    last.op = "validate_coplanar_vertices" =>
        /\ MovedCorners(last.args.vertices) \subseteq {4}
                => last.ret = (MovedBy(last.args.vertices) <= last.args.tolerance)
        /\ MovedBy(last.args.vertices) <= last.args.tolerance => last.ret = TRUE

C19_Witness ==
    /\ last.op = "validate_coplanar_vertices"
    /\ MovedCorners(last.args.vertices) = {4}
    /\ MovedBy(last.args.vertices) = last.args.tolerance
    /\ last.args.tolerance > 0
    /\ last.ret = TRUE

(* C20 as stated: for each constraint type residual(geometry) is never     *)
(* negative and is 0 exactly when the constraint's condition holds: the    *)
(* distance between the two points equals required_distance; the two       *)
(* points have equal z; the point's z equals required_height; the two      *)
(* points have equal x and equal y.                                        *)
ConditionHolds(c, geometry) ==
    LET point_a == get_point(geometry, c.a)
        point_b == get_point(geometry, c.b)
    IN  CASE c.kind = "Distance" -> Norm(measure_vector(point_a, point_b)) = c.required
          [] c.kind = "Horizontal" -> point_a[3] = point_b[3]
          [] c.kind = "Height" -> point_a[3] = c.required
          [] OTHER -> point_a[1] = point_b[1] /\ point_a[2] = point_b[2]

C20_ResidualZeroIffConditionHolds ==
    last.op = "residual" =>
        /\ last.ret >= 0
        /\ (last.ret = 0) = ConditionHolds(last.args.constraint, last.args.geometry)

(* C20 amended: the residual is never negative and is 0 whenever the       *)
(* condition holds; for Distance, Horizontal and Height it is 0 only then  *)
(* (the distance being the computed one); for Vertical and                 *)
(* VerticalAlignment it is 0 exactly when the squares of the x and y       *)
(* differences both vanish in the arithmetic, which also happens for       *)
(* differences too small for their square to be represented.               *)
SquaresVanish(geometry) ==
    LET dx == geometry[2][1] - geometry[1][1]
        dy == geometry[2][2] - geometry[1][2]
    IN  FMul(dx, dx) = 0 /\ FMul(dy, dy) = 0

C20_ResidualZeroWhenConditionHolds ==
    last.op = "residual" =>
        LET c == last.args.constraint
            geometry == last.args.geometry
        IN  /\ last.ret >= 0
            /\ ConditionHolds(c, geometry) => last.ret = 0
            /\ c.kind \in {"Distance", "Horizontal", "Height"}
                    => (last.ret = 0 => ConditionHolds(c, geometry))
            /\ c.kind \in {"Vertical", "VerticalAlignment"}
                    => ((last.ret = 0) = SquaresVanish(geometry))

C20_Witness ==
    /\ last.op = "residual"
    /\ last.args.constraint.kind = "Vertical"
    /\ last.args.geometry[1][1] # last.args.geometry[2][1]
    /\ last.ret = 0

----------------------------------------------------------------------------
(* Further properties of the constraint solver *)

(* C24: solve() decides convergence on the geometry every relaxation pass  *)
(* produces: it returns MaxIterationsReached only if, in the geometry it   *)
(* leaves behind, some constraint's residual is not below tolerance.       *)
C24_MaxIterationsOnlyIfUnsatisfied ==
    (pc = "done" /\ result = MaxIterationsReached /\ ~ResidualPanics(constraints, points))
        => ~(MaxResidual(constraints, points) < config.tolerance)

(* C25: whenever solve() returns Converged(n) for a non-empty constraint   *)
(* set, every constraint's residual in the final geometry is strictly      *)
(* below the tolerance and exactly n - 1 relaxation passes were applied    *)
(* before the successful check (Converged(1) leaves the geometry           *)
(* untouched).                                                             *)
C25_ConvergedMeansBelowTolerance ==
    (pc = "done" /\ result.tag = "Converged" /\ constraints # <<>>) =>
        /\ ~ResidualPanics(constraints, points)
        /\ \A i \in DOMAIN constraints : residual(constraints[i], points) < config.tolerance
        /\ passes = result.n - 1
        /\ checks = result.n

C25_Witness ==
    /\ pc = "done"
    /\ result = Converged(2)
    /\ passes = 1
    /\ relaxLog # <<>>
    /\ config.tolerance = DefaultTolerance

(* the rounding allowed on a computed distance, in grid steps *)
RoundingSlack == 64

Min(a, b) == IF a <= b THEN a ELSE b

DistanceIn(geometry) == Norm(measure_vector(geometry[1], geometry[2]))

(* C26: one relaxation of a distance constraint on two points at distance  *)
(* d > 0 moves the two points by equal and opposite amounts along the line *)
(* joining them (the midpoint is unchanged) and leaves them at distance    *)
(* d + damping * (required_distance - d), up to rounding; for damping in   *)
(* [0, 1] and required_distance >= 0 the new distance lies between d and   *)
(* required_distance.                                                      *)
C26_RelaxationStepsTowardsRequired ==
    (last.op = "relax_distance_constraint" /\ DistanceIn(last.args.geometry) > 0) =>
        LET before == last.args.geometry
            after == last.ret
            required == last.args.constraint.required
            d == DistanceIn(before)
            new_d == DistanceIn(after)
            moved_a == measure_vector(before[1], after[1])
            moved_b == measure_vector(before[2], after[2])
            off_line == cross_product(measure_vector(before[1], before[2]), moved_b)
        IN  /\ \A axis \in 1..3 : moved_a[axis] = -moved_b[axis]
            /\ \A axis \in 1..3 : Abs(off_line[axis]) <= RoundingSlack
            /\ Abs(new_d - (d + FMul(last.args.damping, required - d))) <= RoundingSlack
            /\ new_d >= Min(d, required) - RoundingSlack
            /\ new_d <= Max(d, required) + RoundingSlack

C26_Witness ==
    /\ last.op = "relax_distance_constraint"
    /\ DistanceIn(last.args.geometry) > last.args.constraint.required
    /\ last.args.constraint.required > 0
    /\ last.args.damping = One \div 4
    /\ last.args.geometry[1][1] # last.args.geometry[2][1]
    /\ last.args.geometry[1][2] # last.args.geometry[2][2]
    /\ DistanceIn(last.ret) < DistanceIn(last.args.geometry)
    /\ DistanceIn(last.ret) > last.args.constraint.required

(* C27: when the two points of a distance constraint coincide (current     *)
(* distance exactly 0), a relaxation moves only the second point, by the   *)
(* fixed offset +0.1 in x whatever the damping, and leaves the first point *)
(* and the second point's y and z unchanged.                               *)
C27_CoincidentPointsNudgeSecondInX ==
    (last.op = "relax_distance_constraint" /\ DistanceIn(last.args.geometry) = 0) =>
        LET before == last.args.geometry
            after == last.ret
        IN  /\ Len(after) = Len(before)
            /\ after[1] = before[1]
            /\ after[2][1] = before[2][1] + One \div 10
            /\ after[2][2] = before[2][2]
            /\ after[2][3] = before[2][3]

C27_Witness ==
    /\ last.op = "relax_distance_constraint"
    /\ last.args.geometry = << <<One, One, 0>>, <<One, One, 0>> >>
    /\ last.args.damping = One \div 4
    /\ last.ret = << <<One, One, 0>>, <<One + One \div 10, One, 0>> >>

Occurrences(cs, c) == Cardinality({ i \in DOMAIN cs : cs[i] = c })

SameMultiset(cs, ds) ==
    /\ Len(cs) = Len(ds)
    /\ \A i \in DOMAIN cs : Occurrences(cs, cs[i]) = Occurrences(ds, cs[i])

DistanceEndpoint(idx, cs) ==
    \E i \in DOMAIN cs : cs[i].kind = "Distance" /\ idx \in {cs[i].a, cs[i].b}

(* C29: solve() changes only the coordinates of points that are an         *)
(* endpoint of some DistanceConstraint: in every step of the call,         *)
(* whatever it goes on to return, the number of points, the multiset of    *)
(* constraints, the configuration and every point that is no endpoint of   *)
(* a distance constraint stay as they were.                                *)
C29_SolveMovesOnlyDistanceEndpoints ==
    [][pc' # "idle" =>
          /\ Len(points') = Len(points)
          /\ SameMultiset(constraints', constraints)
          /\ config' = config
          /\ \A i \in DOMAIN points :
                ~DistanceEndpoint(i - 1, constraints) => points'[i] = points[i]]_vars

C29_Witness ==
    /\ pc = "done"
    /\ result = MaxIterationsReached
    /\ passes = 2
    /\ Len(constraints) = 2
    /\ \A i \in DOMAIN constraints : constraints[i].kind \in {"Horizontal", "Vertical"}
    /\ constraints[1].decl = 1
    /\ points = << <<0, 0, 0>>, <<0, One, One>> >>

SamePair(c, e) == {c.a, c.b} = {e.a, e.b}

(* two distance constraints on one pair of points whose required           *)
(* distances differ by at least twice the tolerance                        *)
Conflicting(cs, tolerance) ==
    \E i, j \in DOMAIN cs :
        /\ cs[i].kind = "Distance"
        /\ cs[j].kind = "Distance"
        /\ SamePair(cs[i], cs[j])
        /\ Abs(cs[i].required - cs[j].required) >= 2 * tolerance

(* C30: if two DistanceConstraints on the same pair of (existing) points   *)
(* require distances that differ by at least twice the tolerance, solve()  *)
(* never returns Converged, whatever the initial positions, priorities and *)
(* damping: it checks and relaxes max_iterations times and returns         *)
(* MaxIterationsReached, and reports no conflict.                          *)
C30_ConflictingDistancesNeverConverge ==
    (pc = "done" /\ Conflicting(constraints, config.tolerance)
                 /\ ~ResidualPanics(constraints, points)) =>
        /\ result = MaxIterationsReached
        /\ passes = config.max_iterations
        /\ checks = config.max_iterations

C30_Witness ==
    /\ pc = "done"
    /\ Conflicting(constraints, config.tolerance)
    /\ config.tolerance = One \div 2
    /\ config.damping = One \div 2
    /\ constraints[1].priority # constraints[2].priority
    /\ result = MaxIterationsReached
    /\ passes = 2
    /\ Len(relaxLog) = 2

(* (b - a) . ((c - a) x (e - a)) *)
ScalarTripleProduct(a, b, c, e) ==
    LET u == measure_vector(a, b)
        n == cross_product(measure_vector(a, c), measure_vector(a, e))
    IN  FMul(u[1], n[1]) + FMul(u[2], n[2]) + FMul(u[3], n[3])

ExactlyCoplanar(vertex_list) ==
    \A i, j, k, l \in DOMAIN vertex_list :
        ScalarTripleProduct(vertex_list[i], vertex_list[j], vertex_list[k], vertex_list[l]) = 0

(* C28: with tolerance 0, validate_coplanar_vertices returns true only for *)
(* vertex lists that are exactly coplanar: every four vertices of the list *)
(* have a zero scalar triple product.                                      *)
C28_TrueOnlyIfCoplanar ==
    (last.op = "validate_coplanar_vertices" /\ last.ret = TRUE /\ last.args.tolerance = 0)
        => ExactlyCoplanar(last.args.vertices)

----------------------------------------------------------------------------
(* Properties of the solids built through the registries *)

(* the vertices the segments of a stored polygon end at *)
PolygonVertices(polygon_id) ==
    UNION { { segments[s][1], segments[s][2] } :
                s \in { polygons[polygon_id][k] : k \in DOMAIN polygons[polygon_id] } }

(* the positions of the given vertices, in every order *)
PositionLists(vertex_ids) ==
    { [k \in DOMAIN order |-> vertices[order[k]]] :
        order \in { o \in [1..Cardinality(vertex_ids) -> vertex_ids] :
                        \A i, j \in DOMAIN o : i # j => o[i] # o[j] } }

----------------------------------------------------------------------------
(* Properties of the triangulation *)

Touched(polygon) ==
    UNION { { segments[polygon[k]][1], segments[polygon[k]][2] } : k \in DOMAIN polygon }

TimesNamed(polygon, v) ==
    Cardinality({ k \in DOMAIN polygon : segments[polygon[k]][1] = v })
        + Cardinality({ k \in DOMAIN polygon : segments[polygon[k]][2] = v })

(* the vertices joined to those of the set by segments of the polygon *)
RECURSIVE Component(_, _)
Component(polygon, reached) ==
    LET more == reached \cup
                { v \in Touched(polygon) :
                    \E k \in DOMAIN polygon :
                        /\ v \in { segments[polygon[k]][1], segments[polygon[k]][2] }
                        /\ { segments[polygon[k]][1], segments[polygon[k]][2] } \cap reached # {} }
    IN  IF more = reached THEN reached ELSE Component(polygon, more)

(* the segments form one single closed cycle *)
SingleClosedCycle(polygon) ==
    /\ polygon # <<>>
    /\ \A v \in Touched(polygon) : TimesNamed(polygon, v) = 2
    /\ Component(polygon, { CHOOSE v \in Touched(polygon) : TRUE }) = Touched(polygon)

(* C21: for every polygon whose segment ids are all stored,                *)
(* triangulate_polygon_for_rendering returns without failing: an empty     *)
(* list whenever the segments do not form one single closed cycle, and     *)
(* exactly n - 2 triangles, all sharing the first ordered vertex, when     *)
(* they form one closed cycle over n distinct vertices.                    *)
C21_TriangulationNeverFails ==
    (/\ last.op = "triangulate_polygon_for_rendering"
     /\ \A k \in DOMAIN polygons[last.args.polygon] :
            polygons[last.args.polygon][k] \in DOMAIN segments) =>
        LET polygon == polygons[last.args.polygon]
            faces == last.ret.faces
        IN  /\ last.ret.tag = "Returned"
            /\ ~SingleClosedCycle(polygon) => faces = <<>>
            /\ SingleClosedCycle(polygon) =>
                    /\ Len(faces) = Cardinality(Touched(polygon)) - 2
                    /\ \A i \in DOMAIN faces : faces[i].vertices[1] = faces[1].vertices[1]

(* the solids a polygon is a face of *)
OwningSolids(polygon_id) ==
    { o \in DOMAIN solids : \E k \in DOMAIN solids[o] : solids[o][k] = polygon_id }

SolidVertices(o) ==
    UNION { Touched(polygons[solids[o][k]]) : k \in DOMAIN solids[o] }

Centroid(vertex_ids) ==
    Vec3DivCount(SumOfValues(vertices, vertex_ids), Cardinality(vertex_ids))

(* C22: for every face of a solid that triangulates to a non-empty result, *)
(* the returned normal points away from the centroid of the owning solid   *)
(* (normal . (polygon centroid - solid centroid) > 0) and the winding is   *)
(* flipped exactly when the raw normal of the first three ordered vertices *)
(* points toward that centroid, also when the vertex registry holds        *)
(* vertices of other solids.                                               *)
C22_NormalPointsAwayFromOwningSolid ==
    (/\ last.op = "triangulate_polygon_for_rendering"
     /\ last.ret.tag = "Returned"
     /\ last.ret.faces # <<>>) =>
        \A o \in OwningSolids(last.args.polygon) :
            LET outward == Vec3Sub(Centroid(Touched(polygons[last.args.polygon])),
                                   Centroid(SolidVertices(o)))
            IN  \A i \in DOMAIN last.ret.faces :
                    LET face == last.ret.faces[i]
                        flipped == face.winding_order = Clockwise
                        v0 == face.vertices[1]
                        v1 == IF flipped THEN face.vertices[3] ELSE face.vertices[2]
                        v2 == IF flipped THEN face.vertices[2] ELSE face.vertices[3]
                        raw_normal == cross_product(Vec3Sub(v1, v0), Vec3Sub(v2, v0))
                    IN  /\ ~face.normal.nan
                        /\ Vec3Dot(face.normal.v, outward) > 0
                        /\ flipped <=> (Vec3Dot(raw_normal, outward) < 0)

====
